---- MODULE Spec2Model ----
(***************************************************************************)
(* Reopen Closed Tabs (src/JS/nug.uc.js, lines 3841-4673).                 *)
(*                                                                         *)
(* The state is the closed-tab session store, the browser's tabs and       *)
(* active workspace, the popup panel (rows, selection, search input and    *)
(* its listeners), ReopenClosedTabs._allTabsCache, the async functions     *)
(* suspended at an await (toggleMenu/_populatePanel continuations in the   *)
(* microtask queue, reopenTab executions awaiting the workspace switch).   *)
(*                                                                         *)
(* Strings are sequences of one-character strings; an absent (undefined)   *)
(* string is the empty sequence and an absent id is "", which the source   *)
(* treats alike (`x || ''`, `!url`, `workspaceId &&`).                     *)
(***************************************************************************)
EXTENDS Integers, Sequences, FiniteSets, TLC

VARIABLES
    closedStore,      \* SessionStore's closed-tab list of the window: ids of session records
    storeAvailable,   \* SessionStore is defined
    faults,           \* the reads of a data source that throw in this window
    anchor,           \* "noButton", "noPopupSet" or "ready": what toggleMenu finds in the document
    toggleRefused,    \* the last toggleMenu call logged an error and returned before the panel
    panels,           \* panel elements appended to #mainPopupSet and stored on the button
    showOpenTabs,     \* pref extensions.reopen-closed-tabs.show-open-tabs
    newTabs,          \* tabs created by gBrowser.addTab, in creation order
    activeWorkspace,  \* gZenWorkspaces.activeWorkspace
    selectedTab,      \* gBrowser.selectedTab
    panelState,       \* "none" (no panel yet), "closed" or "open"
    rows,             \* .reopen-closed-tab-item elements of the attached list container
    placeholder,      \* a .reopen-closed-tab-item-disabled label is in the list container
    query,            \* value of the attached search input
    inputListeners,   \* sets of input/keydown listeners on the attached search input
    allTabsCache,     \* ReopenClosedTabs._allTabsCache
    microtasks,       \* FIFO of suspended toggleMenu/_populatePanel continuations
    jobs,             \* reopenTab executions, in call order
    ucApi,            \* UC_API and UC_API.Runtime are defined
    palette,          \* window.ZenCommandPalette is defined
    boot,             \* where the start of the script is: "load", "fallbackWait",
                      \* "startupWait", "started" or "noApi"
    now,              \* time since the window loaded, in units of 1000 ms
    due,              \* when the pending setTimeout callback is due, -1 when none is pending
    retryCount,       \* argument of the last setupCommandPaletteIntegration call
    attempts,         \* calls of setupCommandPaletteIntegration
    registered,       \* calls of ZenCommandPalette.addCommands
    fallbackChecks    \* runs of the fallback setTimeout callback (4662-4671)

startupVars == <<ucApi, palette, boot, now, due, retryCount, attempts, registered,
                 fallbackChecks>>

vars == <<closedStore, storeAvailable, faults, anchor, toggleRefused, panels,
          showOpenTabs, newTabs, activeWorkspace,
          selectedTab, panelState, rows, placeholder, query, inputListeners,
          allTabsCache, microtasks, jobs, startupVars>>

(***************************************************************************)
(* Bounds.                                                                 *)
(***************************************************************************)
MaxClosed == 2      \* session records in the closed-tab store at start
MaxQueryLen == 2    \* characters typed into the search input
MaxInFlight == 2    \* toggleMenu calls suspended at an await at once
MaxJobs == 2        \* reopenTab calls in one behaviour
MaxTime == 12       \* units of 1000 ms the start of the script is followed for

\* if (retryCount < 10) (4646)
MaxRetries == 10

(***************************************************************************)
(* Strings.                                                                *)
(***************************************************************************)
Alphabet == {"a", "B"}

\* String.prototype.toLowerCase, per character
LowerChar(c) ==
    CASE c = "W" -> "w"
      [] c = "A" -> "a"
      [] c = "B" -> "b"
      [] OTHER -> c

ToLowerCase(s) == [i \in 1..Len(s) |-> LowerChar(s[i])]

\* String.prototype.includes
Includes(s, q) ==
    \E i \in 0..(Len(s) - Len(q)) : SubSeq(s, i + 1, i + Len(q)) = q

RECURSIVE StringsUpTo(_)
StringsUpTo(n) ==
    IF n = 0 THEN {<<>>}
    ELSE StringsUpTo(n - 1) \cup
         {Append(s, c) : s \in {t \in StringsUpTo(n - 1) : Len(t) = n - 1}, c \in Alphabet}

Queries == StringsUpTo(MaxQueryLen)

\* Array.prototype.join over strings
RECURSIVE Join(_, _)
Join(parts, sep) ==
    IF Len(parts) = 0 THEN <<>>
    ELSE IF Len(parts) = 1 THEN parts[1]
    ELSE parts[1] \o sep \o Join(Tail(parts), sep)

(***************************************************************************)
(* The environment: session records, workspaces, folders, open tabs.       *)
(***************************************************************************)
\* Session records a closed-tab store can hold (SessionStore.getClosedTabData).
\* Record 2 is malformed: state.entries[0] has no url.
ClosedPool ==
    <<[url |-> <<"a">>, title |-> <<"A", "b">>, entryTitle |-> <<"a">>, closedAt |-> 1,
       pinned |-> TRUE, zenWorkspace |-> "W2", closedInTabGroupId |-> "F1"],
      [url |-> <<>>, title |-> <<"b">>, entryTitle |-> <<>>, closedAt |-> 2,
       pinned |-> TRUE, zenWorkspace |-> "W2", closedInTabGroupId |-> "F1"],
      [url |-> <<"b", "a">>, title |-> <<>>, entryTitle |-> <<"B">>, closedAt |-> 3,
       pinned |-> FALSE, zenWorkspace |-> "W1", closedInTabGroupId |-> "F9"]>>

RecordIds == 1..Len(ClosedPool)

\* gZenWorkspaces.getWorkspaceFromId(id)?.name
WorkspaceName(id) ==
    CASE id = "W1" -> <<"c", "a">>
      [] id = "W2" -> <<"a", "a">>
      [] OTHER -> <<>>

\* Folder elements of the document: F2 is nested in F1; "F9" names no element.
FolderIds == {"F1", "F2"}

FolderLabel(f) == IF f = "F1" THEN <<"b">> ELSE <<"c">>

FolderParent(f) == IF f = "F2" THEN "F1" ELSE ""

\* Tabs open at start (gZenWorkspaces.allStoredTabs and tab[zen-essential]);
\* the first one is the selected tab.  Tab 103 is a zen-empty-tab placeholder and
\* tab 104 is in the middle of closing.
InitialTabs ==
    <<[id |-> 101, url |-> <<"c">>, title |-> <<"c">>, pinned |-> FALSE,
       essential |-> FALSE, workspaceId |-> "W1", group |-> "F2",
       empty |-> FALSE, closing |-> FALSE],
      [id |-> 102, url |-> <<"c">>, title |-> <<"A">>, pinned |-> TRUE,
       essential |-> TRUE, workspaceId |-> "", group |-> "",
       empty |-> FALSE, closing |-> FALSE],
      [id |-> 103, url |-> <<>>, title |-> <<"a">>, pinned |-> FALSE,
       essential |-> FALSE, workspaceId |-> "W1", group |-> "",
       empty |-> TRUE, closing |-> FALSE],
      [id |-> 104, url |-> <<"a">>, title |-> <<"a">>, pinned |-> FALSE,
       essential |-> FALSE, workspaceId |-> "W2", group |-> "",
       empty |-> FALSE, closing |-> TRUE]>>

(***************************************************************************)
(* Small sequence helpers.                                                 *)
(***************************************************************************)
Range(s) == {s[i] : i \in 1..Len(s)}

RemoveAt(s, i) == SubSeq(s, 1, i - 1) \o SubSeq(s, i + 1, Len(s))

\* injective sequences over S of length at most n
InjSeqs(S, n) ==
    {s \in UNION {[1..k -> S] : k \in 0..n} :
        \A i, j \in 1..Len(s) : i # j => s[i] # s[j]}

(***************************************************************************)
(* TabManager: reading the two sources (lines 4051-4154).                  *)
(***************************************************************************)
\* the object literal of getRecentlyClosedTabs (4059-4067); index is 0-based
ClosedEntry(rid, index) ==
    LET tab == ClosedPool[rid]
    IN  [isClosed |-> TRUE,
         url |-> tab.url,
         title |-> IF tab.title # <<>> THEN tab.title ELSE tab.entryTitle,
         workspace |-> <<>>, folder |-> <<>>,
         isPinned |-> FALSE, isEssential |-> FALSE, tabElement |-> 0,
         sessionData |-> rid, sessionIndex |-> index, closedAt |-> tab.closedAt]

\* a fetch that leaves the entries in the order of the store
SortByClosedAtNone(s) == s

\* Array.prototype.sort((a, b) => b.closedAt - a.closedAt): stable, descending
RECURSIVE SortByClosedAt(_)
SortByClosedAt(s) ==
    IF s = <<>> THEN <<>>
    ELSE LET rest == SortByClosedAt(SubSeq(s, 1, Len(s) - 1))
             e == s[Len(s)]
             k == Cardinality({i \in 1..Len(rest) : rest[i].closedAt >= e.closedAt})
         IN  SubSeq(rest, 1, k) \o <<e>> \o SubSeq(rest, k + 1, Len(rest))

\* a fetch that numbers the entries after sorting them
GetRecentlyClosedTabsIndexAfterSort(store, available) ==
    IF available /\ "getClosedTabData" \notin faults
    THEN LET sorted == SortByClosedAt([i \in 1..Len(store) |-> ClosedEntry(store[i], i - 1)])
         IN  [i \in 1..Len(sorted) |-> [sorted[i] EXCEPT !.sessionIndex = i - 1]]
    ELSE <<>>

\* a fetch without the availability test and the try/catch
GetRecentlyClosedTabsUnguarded(store, available) ==
    SortByClosedAt([i \in 1..Len(store) |-> ClosedEntry(store[i], i - 1)])

\* TabManager.getRecentlyClosedTabs; a throw of SessionStore.getClosedTabData is caught
\* and gives [] (4076-4079)
GetRecentlyClosedTabs(store, available) ==
    IF available /\ "getClosedTabData" \notin faults
    THEN SortByClosedAt([i \in 1..Len(store) |-> ClosedEntry(store[i], i - 1)])
    ELSE <<>>

\* a walk that pushes the labels instead of unshifting them
RECURSIVE FolderPathInnermostFirst(_)
FolderPathInnermostFirst(group) ==
    IF group \in FolderIds
    THEN <<FolderLabel(group)>> \o FolderPathInnermostFirst(FolderParent(group))
    ELSE <<>>

\* TabManager._getFolderBreadcrumbs: labels from the outermost folder down
RECURSIVE FolderPath(_)
FolderPath(group) ==
    IF group \in FolderIds
    THEN Append(FolderPath(FolderParent(group)), FolderLabel(group))
    ELSE <<>>

GetFolderBreadcrumbs(group) == Join(FolderPath(group), <<" ", "/", " ">>)

\* the tab elements of the window: those open at start, then the created ones
TabElements(created) ==
    InitialTabs \o
    [i \in 1..Len(created) |->
        [id |-> i, url |-> created[i].url, title |-> created[i].url,
         pinned |-> created[i].pinned, essential |-> FALSE,
         workspaceId |-> created[i].workspaceId, group |-> created[i].group,
         empty |-> FALSE, closing |-> FALSE]]

\* a concatenation that keeps a tab found in both sets twice
DedupNone(s) == s

\* [...new Set([...workspaceTabs, ...essentialTabs])] (4118-4120)
\* a Set keeps the first occurrence of each element, in insertion order
Dedup(s) ==
    LET first == {i \in 1..Len(s) : \A k \in 1..(i - 1) : s[k] # s[i]}
        nth(j) == CHOOSE i \in first : Cardinality({k \in first : k <= i}) = j
    IN  [j \in 1..Cardinality(first) |-> s[nth(j)]]

AllTabs(created) ==
    LET all == TabElements(created)
    IN  Dedup(all \o SelectSeq(all, LAMBDA t : t.essential))

\* the tabInfo literal of getOpenTabs (4132-4144)
OpenEntry(tab) ==
    [isClosed |-> FALSE,
     url |-> tab.url,
     title |-> tab.title,
     workspace |-> IF tab.essential THEN <<>> ELSE WorkspaceName(tab.workspaceId),
     folder |-> IF tab.group \in FolderIds THEN GetFolderBreadcrumbs(tab.group) ELSE <<>>,
     isPinned |-> tab.pinned, isEssential |-> tab.essential, tabElement |-> tab.id,
     sessionData |-> 0, sessionIndex |-> -1, closedAt |-> 0]

\* if (tab.hasAttribute('zen-empty-tab') || tab.closing) continue (4123), negated
IsLiveTab(tab) == ~tab.empty /\ ~tab.closing

\* TabManager.getOpenTabs; a throw of the enumeration is caught and gives [] (4150-4153)
\* (allTabs is bound once, as the constant of 4120 is)
GetOpenTabs(created) ==
    IF "allStoredTabs" \in faults
    THEN <<>>
    ELSE CHOOSE openTabs \in {[i \in 1..Len(all) |-> OpenEntry(all[i])] :
                                 all \in {SelectSeq(AllTabs(created), IsLiveTab)}} : TRUE

(***************************************************************************)
(* ReopenClosedTabs: the catalog and the rendered list.                    *)
(***************************************************************************)
\* a catalog that is built only when none is kept from an earlier open
BuildCacheCarryOver(closedTabs, openTabs) ==
    IF allTabsCache # <<>> THEN allTabsCache ELSE closedTabs \o openTabs

\* a catalog built with the open tabs first
BuildCacheOpenFirst(closedTabs, openTabs) == openTabs \o closedTabs

\* this._allTabsCache = [...closedTabs, ...openTabs] (4406)
BuildCache(closedTabs, openTabs) == closedTabs \o openTabs

\* a predicate that does not look at the folder path
MatchesQueryNoFolder(tab, q) ==
    LET lowerQuery == ToLowerCase(q)
    IN  \/ Includes(ToLowerCase(tab.title), lowerQuery)
        \/ Includes(ToLowerCase(tab.url), lowerQuery)
        \/ Includes(ToLowerCase(tab.workspace), lowerQuery)

\* the predicate of _filterTabs (4514-4525)
MatchesQuery(tab, q) ==
    LET lowerQuery == ToLowerCase(q)
    IN  \/ Includes(ToLowerCase(tab.title), lowerQuery)
        \/ Includes(ToLowerCase(tab.url), lowerQuery)
        \/ Includes(ToLowerCase(tab.workspace), lowerQuery)
        \/ Includes(ToLowerCase(tab.folder), lowerQuery)

\* filteredTabs of _filterTabs
FilterTabs(cache, q) == SelectSeq(cache, LAMBDA tab : MatchesQuery(tab, q))

\* a rendering that marks no row as selected
RenderGroupsUnselected(tabs) ==
    LET closedTabs == SelectSeq(tabs, LAMBDA t : t.isClosed)
        openTabs == SelectSeq(tabs, LAMBDA t : ~t.isClosed)
        items == closedTabs \o openTabs
    IN  [i \in 1..Len(items) |-> [tabData |-> items[i], selected |-> FALSE]]

\* the two _renderGroup calls (4390-4396, 4540-4548): closed group, then open group;
\* the first .reopen-closed-tab-item gets the selected attribute (4408-4411, 4550-4553)
RenderGroups(tabs) ==
    LET closedTabs == SelectSeq(tabs, LAMBDA t : t.isClosed)
        openTabs == SelectSeq(tabs, LAMBDA t : ~t.isClosed)
        items == closedTabs \o openTabs
    IN  [i \in 1..Len(items) |-> [tabData |-> items[i], selected |-> (i = 1)]]

\* a filter that drops every closed entry
RemoveFromCacheAllClosed(cache, tabData) ==
    SelectSeq(cache, LAMBDA tab : tab.isClosed # tabData.isClosed)

\* the filter of _handleRemoveTabClick (4506).  `!==` compares object identity; the
\* entries of one catalog differ in sessionIndex or tabElement, and a row's tabData
\* is an element of the catalog it was rendered from, so equality of values agrees.
RemoveFromCache(cache, tabData) == SelectSeq(cache, LAMBDA tab : tab # tabData)

\* a handler that removes the row and keeps the entry in the catalog
CacheAfterRemoveClickKeep(cache, tabData) == cache

\* _allTabsCache after _handleRemoveTabClick on a row with this tabData (4503-4509)
CacheAfterRemoveClick(cache, tabData) ==
    IF tabData.isClosed THEN RemoveFromCache(cache, tabData) ELSE cache

SelectedRows(rs) == {i \in 1..Len(rs) : rs[i].selected}

\* a navigation without the `|| allItems[0]` and `|| allItems[length - 1]` fallbacks
NextSelectedNoWrap(n, current, key) ==
    CASE key = "ArrowDown" ->
            IF current # 0
            THEN (IF current + 1 <= n THEN current + 1 ELSE 0)
            ELSE (IF n >= 1 THEN 1 ELSE 0)
      [] key = "ArrowUp" ->
            IF current # 0
            THEN (IF current - 1 >= 1 THEN current - 1 ELSE 0)
            ELSE n
      [] OTHER -> 0

\* nextSelected of _handleSearchKeydown (4567-4582) as an index into allItems,
\* 0 for null; current is the index of currentSelected, 0 when there is none
NextSelected(n, current, key) ==
    CASE key = "ArrowDown" ->
            IF current # 0
            THEN (IF current + 1 <= n THEN current + 1 ELSE IF n >= 1 THEN 1 ELSE 0)
            ELSE (IF n >= 1 THEN 1 ELSE 0)
      [] key = "ArrowUp" ->
            IF current # 0
            THEN (IF current - 1 >= 1 THEN current - 1 ELSE n)
            ELSE n
      [] OTHER -> 0

\* the selected attributes after _handleSearchKeydown (4590-4595)
KeydownRows(rs, key) ==
    LET sel == SelectedRows(rs)
        current == IF sel = {} THEN 0 ELSE CHOOSE i \in sel : \A j \in sel : i <= j
        next == NextSelected(Len(rs), current, key)
    IN  [i \in 1..Len(rs) |->
            [rs[i] EXCEPT !.selected =
                IF i = next THEN TRUE
                ELSE IF i = current THEN FALSE
                ELSE rs[i].selected]]

(***************************************************************************)
(* TabManager.reopenTab (4161-4227) and removeClosedTab (4086-4098).       *)
(*                                                                         *)
(* A restore is the record w = [job, tabs, active, selected, store]: the   *)
(* execution's own state and the part of the browser it acts on.  job.pc   *)
(* is "await" while it is suspended at `await changeWorkspaceWithID`, and  *)
(* "done" after it returned.  job.calls lists the external calls it has    *)
(* issued.  `fail` names the call of the secondary restoration (workspace, *)
(* pin, folder) that throws in this run, if any; a call that throws has    *)
(* been issued and has had no effect.                                      *)
(***************************************************************************)
Call(w, name) == [w EXCEPT !.job.calls = Append(@, name)]

\* a catch block that discards the tab the restore created
CatchErrorRollback(w) ==
    [w EXCEPT !.job.pc = "done", !.job.error = TRUE,
              !.tabs = [i \in 1..Len(w.tabs) |->
                          IF i = w.job.tab THEN [w.tabs[i] EXCEPT !.open = FALSE]
                          ELSE w.tabs[i]]]

\* catch (e) { debugError(...) } (4224-4226): logs, returns normally
CatchError(w) == [w EXCEPT !.job.pc = "done", !.job.error = TRUE]

\* return (4212)
Return(w) == [w EXCEPT !.job.pc = "done"]

\* gBrowser.selectedTab = newTab (4211)
StepFinal(w, fail) ==
    Return([Call(w, "selectedTab") EXCEPT !.selected = w.job.tab])

\* a folder step without the `if (folder && ...)` test: a missing folder makes it throw
StepFolderNoCheck(w, fail) ==
    LET groupId == ClosedPool[w.job.tabData.sessionData].closedInTabGroupId
    IN  IF groupId # ""
        THEN IF fail = "addTabs" \/ groupId \notin FolderIds
             THEN CatchError(Call(w, "addTabs"))
             ELSE StepFinal([Call(w, "addTabs") EXCEPT !.tabs[w.job.tab].group = groupId], fail)
        ELSE StepFinal(w, fail)

\* restore to folder state (4204-4210)
StepFolder(w, fail) ==
    LET groupId == ClosedPool[w.job.tabData.sessionData].closedInTabGroupId
    IN  IF groupId # "" /\ groupId \in FolderIds
        THEN IF fail = "addTabs"
             THEN CatchError(Call(w, "addTabs"))
             ELSE StepFinal([Call(w, "addTabs") EXCEPT !.tabs[w.job.tab].group = groupId], fail)
        ELSE StepFinal(w, fail)

\* a pin step that pins every restored tab
StepPinAlways(w, fail) ==
    IF fail = "pinTab"
    THEN CatchError(Call(w, "pinTab"))
    ELSE StepFolder([Call(w, "pinTab") EXCEPT !.tabs[w.job.tab].pinned = TRUE], fail)

\* if (tabState.pinned) gBrowser.pinTab(newTab) (4201)
StepPin(w, fail) ==
    IF ClosedPool[w.job.tabData.sessionData].pinned
    THEN IF fail = "pinTab"
         THEN CatchError(Call(w, "pinTab"))
         ELSE StepFolder([Call(w, "pinTab") EXCEPT !.tabs[w.job.tab].pinned = TRUE], fail)
    ELSE StepFolder(w, fail)

\* the continuation of `await changeWorkspaceWithID(workspaceId)` (4196-4197)
StepMove(w, fail) ==
    LET workspaceId == ClosedPool[w.job.tabData.sessionData].zenWorkspace
    IN  IF fail = "changeWorkspaceWithID"
        THEN CatchError(w)
        ELSE LET switched == [w EXCEPT !.active = workspaceId]
             IN  IF fail = "moveTabToWorkspace"
                 THEN CatchError(Call(switched, "moveTabToWorkspace"))
                 ELSE StepPin([Call(switched, "moveTabToWorkspace")
                                 EXCEPT !.tabs[w.job.tab].workspaceId = workspaceId], fail)

\* a workspace step that switches whenever the record names a workspace
StepWorkspaceAlways(w, fail) ==
    LET workspaceId == ClosedPool[w.job.tabData.sessionData].zenWorkspace
    IN  IF workspaceId # ""
        THEN [Call(w, "changeWorkspaceWithID") EXCEPT !.job.pc = "await"]
        ELSE StepPin(w, fail)

\* switch workspace if necessary (4191-4198), up to the await
StepWorkspace(w, fail) ==
    LET workspaceId == ClosedPool[w.job.tabData.sessionData].zenWorkspace
    IN  IF workspaceId # "" /\ workspaceId # w.job.activeWorkspaceId
        THEN [Call(w, "changeWorkspaceWithID") EXCEPT !.job.pc = "await"]
        ELSE StepPin(w, fail)

\* a removal that never reaches SessionStore
RemoveClosedTabNoForget(w, tabData, available) == w

\* a removal without the try/catch: the throw of forgetClosedTab reaches reopenTab
RemoveClosedTabThrows(w, tabData, available) ==
    IF available
    THEN IF tabData.sessionIndex + 1 \notin 1..Len(w.store)
         THEN [Call(w, "forgetClosedTab") EXCEPT !.job.pc = "done", !.job.error = TRUE]
         ELSE [Call(w, "forgetClosedTab")
                 EXCEPT !.store = RemoveAt(w.store, tabData.sessionIndex + 1)]
    ELSE w

\* TabManager.removeClosedTab: SessionStore.forgetClosedTab(window, sessionIndex)
\* throws on an index that names no closed tab; the throw is caught here
RemoveClosedTab(w, tabData, available) ==
    IF available
    THEN IF tabData.sessionIndex + 1 \notin 1..Len(w.store)
         THEN Call(w, "forgetClosedTab")
         ELSE [Call(w, "forgetClosedTab")
                 EXCEPT !.store = RemoveAt(w.store, tabData.sessionIndex + 1)]
    ELSE w

\* gBrowser.addTab(url, ...) and gBrowser.selectedTab = newTab (4181-4186, 4217-4220)
AddTab(w, url) ==
    LET t == Len(w.tabs) + 1
        added == [Call(w, "addTab")
                    EXCEPT !.tabs = Append(@, [url |-> url, pinned |-> FALSE,
                                               workspaceId |-> w.active, group |-> "",
                                               open |-> TRUE]),
                           !.job.tab = t]
    IN  [Call(added, "selectedTab") EXCEPT !.selected = t]

\* a url check that lets every session record through
HasUrlAlways(url) == TRUE

\* if (!url) (4176), negated
HasUrl(url) == url # <<>>

\* a restore that forgets the closed tab before it creates the new one
RestoreClosedForgetFirst(w, available, fail) ==
    LET tabData == w.job.tabData
        url == ClosedPool[tabData.sessionData].url
    IN  IF ~HasUrl(url)
        THEN Return(w)
        ELSE LET forgotten == RemoveClosedTab(w, tabData, available)
                 created == AddTab(forgotten, url)
                 started == [created EXCEPT !.job.activeWorkspaceId = w.active]
             IN  StepWorkspace(started, fail)

\* the branch for a closed tab (4173-4213), up to the await or the return
RestoreClosed(w, available, fail) ==
    LET tabData == w.job.tabData
        url == ClosedPool[tabData.sessionData].url
    IN  IF ~HasUrl(url)
        THEN Return(w)
        ELSE LET created == AddTab(w, url)
                 forgotten == RemoveClosedTab(created, tabData, available)
                 started == [forgotten EXCEPT !.job.activeWorkspaceId = w.active]
             IN  StepWorkspace(started, fail)

\* a branch for an open tab without its `return`: it falls through to the fallback
SwitchToOpenFallThrough(w) ==
    LET tabData == w.job.tabData
        all == TabElements(w.tabs)
        tab == CHOOSE t \in Range(all) : t.id = tabData.tabElement
        switched == [Call(w, "switchTabIfNeeded")
                       EXCEPT !.selected = tab.id,
                              !.active = IF tab.workspaceId # "" THEN tab.workspaceId ELSE @]
    IN  [AddTab(switched, tabData.url) EXCEPT !.job.pc = "done"]

\* win.gZenWorkspaces.switchTabIfNeeded(tab) (4165-4170)
SwitchToOpen(w) ==
    LET tabData == w.job.tabData
        all == TabElements(w.tabs)
        tab == CHOOSE t \in Range(all) : t.id = tabData.tabElement
    IN  Return([Call(w, "switchTabIfNeeded")
                  EXCEPT !.selected = tab.id,
                         !.active = IF tab.workspaceId # "" THEN tab.workspaceId ELSE @])

\* a reopenTab without the fallback branch
ReopenTabNoFallback(w, available, fail) ==
    LET tabData == w.job.tabData
    IN  IF ~tabData.isClosed /\ tabData.tabElement # 0
        THEN SwitchToOpen(w)
        ELSE IF tabData.isClosed /\ tabData.sessionData # 0
        THEN RestoreClosed(w, available, fail)
        ELSE Return(w)

\* TabManager.reopenTab, from the call to the first await or the return
ReopenTab(w, available, fail) ==
    LET tabData == w.job.tabData
    IN  IF ~tabData.isClosed /\ tabData.tabElement # 0
        THEN SwitchToOpen(w)
        ELSE IF tabData.isClosed /\ tabData.sessionData # 0
        THEN RestoreClosed(w, available, fail)
        ELSE IF tabData.url # <<>>
        THEN Return(AddTab(w, tabData.url))
        ELSE Return(w)

NewJob(tabData) ==
    [tabData |-> tabData, pc |-> "start", calls |-> <<>>, tab |-> 0,
     activeWorkspaceId |-> "", error |-> FALSE]

\* the browser state a restore acts on, with the execution `job`
World(job) ==
    [job |-> job, tabs |-> newTabs, active |-> activeWorkspace,
     selected |-> selectedTab, store |-> closedStore]

(***************************************************************************)
(* Initial state: after ReopenClosedTabs.init(), before the first toggle,  *)
(* the command registered at the first attempt.                            *)
(***************************************************************************)
\* Prefs.getPref: the stored value, or Prefs.defaultValues[key] when the pref is unset
GetPref(stored) == IF stored = "unset" THEN FALSE ELSE stored = "true"

\* A read that is never made does not throw: getClosedTabData is called only when
\* SessionStore is defined, the tabs are enumerated only when the pref is set.
WindowInit ==
    /\ closedStore \in {s \in InjSeqs(RecordIds, MaxClosed) : Len(s) = MaxClosed}
    /\ storeAvailable \in BOOLEAN
    /\ showOpenTabs \in {GetPref(stored) : stored \in {"unset", "true", "false"}}
    /\ faults \in SUBSET {"getClosedTabData", "allStoredTabs"}
    /\ "getClosedTabData" \in faults => storeAvailable
    /\ "allStoredTabs" \in faults => showOpenTabs
    /\ anchor \in {"noButton", "noPopupSet", "ready"}
    /\ toggleRefused = FALSE
    /\ panels = 0
    /\ newTabs = <<>>
    /\ activeWorkspace = "W1"
    /\ selectedTab = InitialTabs[1].id
    /\ panelState = "none"
    /\ rows = <<>>
    /\ placeholder = FALSE
    /\ query = <<>>
    /\ inputListeners = 0
    /\ allTabsCache = <<>>
    /\ microtasks = <<>>
    /\ jobs = <<>>

Init ==
    /\ WindowInit
    /\ ucApi = TRUE
    /\ palette = TRUE
    /\ boot = "started"
    /\ now = 0
    /\ due = -1
    /\ retryCount = 0
    /\ attempts = 1
    /\ registered = 1
    /\ fallbackChecks = 0

browserVars == <<closedStore, newTabs, activeWorkspace, selectedTab, jobs>>
prefVars == <<storeAvailable, showOpenTabs, faults>>
hostVars == <<anchor, toggleRefused, panels>>
listVars == <<rows, placeholder, query, allTabsCache>>

(***************************************************************************)
(* toggleMenu (4310-4356) and _populatePanel (4358-4429).                  *)
(*                                                                         *)
(* Both are async.  A call runs to its first await and leaves a            *)
(* continuation in `microtasks`; continuations run in FIFO order.  A       *)
(* continuation holds the locals of its _populatePanel call and whether    *)
(* the mainVbox that call appended is still a child of the panel.          *)
(*                                                                         *)
(* toggleMenu is the command of the hotkey (4270), the callback of the     *)
(* toolbar widget (4302) and the command-palette command (4637).  The      *)
(* source holds no flag for a call in progress, so a caller may invoke it  *)
(* while an earlier call is still suspended.                               *)
(***************************************************************************)
\* a toggleMenu that goes on without the button or without #mainPopupSet
ToggleMenuNoAnchorTest ==
    /\ Len(microtasks) < MaxInFlight
    /\ toggleRefused' = FALSE
    /\ panels' = IF panels = 0 THEN 1 ELSE panels
    /\ IF panelState = "open"
       THEN /\ panelState' = "closed"
            /\ UNCHANGED <<listVars, inputListeners, microtasks>>
       ELSE /\ panelState' = "closed"
            /\ rows' = <<>>
            /\ placeholder' = FALSE
            /\ query' = <<>>
            /\ inputListeners' = 0
            /\ microtasks' =
                 Append([i \in 1..Len(microtasks) |->
                            [microtasks[i] EXCEPT !.attached = FALSE]],
                        [stage |-> "closedTabs",
                         closedTabs |-> GetRecentlyClosedTabs(closedStore, storeAvailable),
                         openTabs |-> <<>>,
                         attached |-> TRUE])
            /\ UNCHANGED allTabsCache
    /\ UNCHANGED <<browserVars, prefVars, anchor>>
    /\ UNCHANGED startupVars

\* a toggleMenu that creates a panel whenever the popup is not open
ToggleMenuNewPanel ==
    /\ Len(microtasks) < MaxInFlight
    /\ IF anchor = "noButton" \/ (panels = 0 /\ anchor = "noPopupSet")
       THEN /\ toggleRefused' = TRUE
            /\ UNCHANGED <<panels, panelState, listVars, inputListeners, microtasks>>
       ELSE /\ toggleRefused' = FALSE
            /\ IF panelState = "open"
               THEN /\ panelState' = "closed"
                    /\ UNCHANGED <<panels, listVars, inputListeners, microtasks>>
               ELSE /\ panelState' = "closed"
                    /\ panels' = panels + 1
                    /\ rows' = <<>>
                    /\ placeholder' = FALSE
                    /\ query' = <<>>
                    /\ inputListeners' = 0
                    /\ microtasks' =
                         Append([i \in 1..Len(microtasks) |->
                                    [microtasks[i] EXCEPT !.attached = FALSE]],
                                [stage |-> "closedTabs",
                                 closedTabs |-> GetRecentlyClosedTabs(closedStore, storeAvailable),
                                 openTabs |-> <<>>,
                                 attached |-> TRUE])
                    /\ UNCHANGED allTabsCache
    /\ UNCHANGED <<browserVars, prefVars, anchor>>
    /\ UNCHANGED startupVars

\* toggleMenu up to a return at 4320-4323 or 4342-4345, up to hidePopup, or up to
\* `await getRecentlyClosedTabs()` (4382)
ToggleMenu ==
    /\ Len(microtasks) < MaxInFlight
    /\ IF anchor = "noButton" \/ (panels = 0 /\ anchor = "noPopupSet")
       THEN /\ toggleRefused' = TRUE
            /\ UNCHANGED <<panels, panelState, listVars, inputListeners, microtasks>>
       ELSE /\ toggleRefused' = FALSE
            /\ panels' = IF panels = 0 THEN 1 ELSE panels
            /\ IF panelState = "open"
               THEN /\ panelState' = "closed"
                    /\ UNCHANGED <<listVars, inputListeners, microtasks>>
               ELSE /\ panelState' = "closed"
                    /\ rows' = <<>>
                    /\ placeholder' = FALSE
                    /\ query' = <<>>
                    /\ inputListeners' = 0
                    /\ microtasks' =
                         Append([i \in 1..Len(microtasks) |->
                                    [microtasks[i] EXCEPT !.attached = FALSE]],
                                [stage |-> "closedTabs",
                                 closedTabs |-> GetRecentlyClosedTabs(closedStore, storeAvailable),
                                 openTabs |-> <<>>,
                                 attached |-> TRUE])
                    /\ UNCHANGED allTabsCache
    /\ UNCHANGED <<browserVars, prefVars, anchor>>
    /\ UNCHANGED startupVars

\* the toolbar widget is created (4296-4303), #mainPopupSet is in the document (4337)
AnchorsAppear ==
    /\ anchor # "ready"
    /\ anchor' = "ready"
    /\ UNCHANGED <<toggleRefused, panels, panelState, listVars, inputListeners, microtasks,
                   browserVars, prefVars>>
    /\ UNCHANGED startupVars

\* _populatePanel from the rendering of the groups to its end (4390-4428)
RenderPanel(c) ==
    /\ allTabsCache' = BuildCache(c.closedTabs, c.openTabs)
    /\ IF c.attached
       THEN /\ rows' = RenderGroups(BuildCache(c.closedTabs, c.openTabs))
            /\ placeholder' = (Len(c.closedTabs) = 0 /\ Len(c.openTabs) = 0)
       ELSE UNCHANGED <<rows, placeholder>>
    /\ inputListeners' = inputListeners + 1
    /\ microtasks' = Append(Tail(microtasks), [c EXCEPT !.stage = "populated"])
    /\ UNCHANGED <<query, panelState>>

\* a continuation that enumerates the open tabs whatever the pref says
ResumeAfterClosedTabsAlwaysOpen ==
    /\ microtasks # <<>>
    /\ Head(microtasks).stage = "closedTabs"
    /\ microtasks' = Append(Tail(microtasks),
                            [Head(microtasks) EXCEPT !.stage = "openTabs",
                                                     !.openTabs = GetOpenTabs(newTabs)])
    /\ UNCHANGED <<listVars, inputListeners, panelState>>
    /\ UNCHANGED <<browserVars, prefVars, hostVars>>
    /\ UNCHANGED startupVars

\* the continuation of `await TabManager.getRecentlyClosedTabs()` (4382-4388)
ResumeAfterClosedTabs ==
    /\ microtasks # <<>>
    /\ Head(microtasks).stage = "closedTabs"
    /\ IF showOpenTabs
       THEN /\ microtasks' = Append(Tail(microtasks),
                                    [Head(microtasks) EXCEPT !.stage = "openTabs",
                                                             !.openTabs = GetOpenTabs(newTabs)])
            /\ UNCHANGED <<listVars, inputListeners, panelState>>
       ELSE RenderPanel(Head(microtasks))
    /\ UNCHANGED <<browserVars, prefVars, hostVars>>
    /\ UNCHANGED startupVars

\* the continuation of `await TabManager.getOpenTabs()` (4387)
ResumeAfterOpenTabs ==
    /\ microtasks # <<>>
    /\ Head(microtasks).stage = "openTabs"
    /\ RenderPanel(Head(microtasks))
    /\ UNCHANGED <<browserVars, prefVars, hostVars>>
    /\ UNCHANGED startupVars

\* the continuation of `await this._populatePanel(panel)`: panel.openPopup (4353-4354)
ResumeToggleMenu ==
    /\ microtasks # <<>>
    /\ Head(microtasks).stage = "populated"
    /\ panelState' = "open"
    /\ microtasks' = Tail(microtasks)
    /\ UNCHANGED <<listVars, inputListeners, browserVars, prefVars, hostVars>>
    /\ UNCHANGED startupVars

(***************************************************************************)
(* Events of the open popup.  They are tasks of the event loop: none runs  *)
(* while a continuation is waiting in the microtask queue.                 *)
(***************************************************************************)
PopupIdle == panelState = "open" /\ microtasks = <<>>

\* a filter that keeps its result as the catalog
SearchInputNarrowing(q) ==
    /\ panelState = "open" /\ microtasks = <<>>
    /\ inputListeners >= 1
    /\ query' = q
    /\ rows' = RenderGroups(FilterTabs(allTabsCache, q))
    /\ placeholder' = (Len(FilterTabs(allTabsCache, q)) = 0)
    /\ allTabsCache' = FilterTabs(allTabsCache, q)
    /\ UNCHANGED <<inputListeners, panelState, microtasks, browserVars, prefVars, hostVars>>
    /\ UNCHANGED startupVars

\* the input listener: _filterTabs(event.target.value, panel) (4512-4556)
SearchInput(q) ==
    /\ PopupIdle
    /\ inputListeners >= 1
    /\ query' = q
    /\ LET filteredTabs == FilterTabs(allTabsCache, q)
       IN  /\ rows' = RenderGroups(filteredTabs)
           /\ placeholder' = (Len(filteredTabs) = 0)
    /\ UNCHANGED <<allTabsCache, inputListeners, panelState, microtasks, browserVars, prefVars,
                   hostVars>>
    /\ UNCHANGED startupVars

\* a click handler that hides the popup without calling reopenTab
StartReopenNone(tabData, fail) == UNCHANGED <<jobs, newTabs, activeWorkspace, selectedTab, closedStore>>

\* reopenTab called on tabData; the job is appended to jobs
StartReopen(tabData, fail) ==
    LET w == ReopenTab(World(NewJob(tabData)), storeAvailable, fail)
    IN  /\ jobs' = Append(jobs, w.job)
        /\ newTabs' = w.tabs
        /\ activeWorkspace' = w.active
        /\ selectedTab' = w.selected
        /\ closedStore' = w.store

\* _handleItemClick (4610-4627): a click on row i
ItemClick(i, fail) ==
    /\ PopupIdle
    /\ Len(jobs) < MaxJobs
    /\ i \in 1..Len(rows)
    /\ StartReopen(rows[i].tabData, fail)
    /\ panelState' = "closed"
    /\ UNCHANGED <<listVars, inputListeners, microtasks, prefVars, hostVars>>
    /\ UNCHANGED startupVars

\* a keydown listener whose Enter falls back to the first row when none is selected
SearchKeydownEnterFirstRow(key, fail) ==
    /\ PopupIdle
    /\ inputListeners >= 1
    /\ rows' = KeydownRows(rows, key)
    /\ IF key = "Enter" /\ rows # <<>>
       THEN /\ Len(jobs) < MaxJobs
            /\ StartReopen(rows[IF SelectedRows(rows) = {} THEN 1
                                ELSE CHOOSE i \in SelectedRows(rows) :
                                        \A j \in SelectedRows(rows) : i <= j].tabData, fail)
            /\ panelState' = "closed"
       ELSE /\ fail = "none"
            /\ UNCHANGED <<browserVars, panelState>>
    /\ UNCHANGED <<placeholder, query, allTabsCache, inputListeners, microtasks, prefVars,
                   hostVars>>
    /\ UNCHANGED startupVars

\* the keydown listener: _handleSearchKeydown (4558-4608)
SearchKeydown(key, fail) ==
    /\ PopupIdle
    /\ inputListeners >= 1
    /\ rows' = KeydownRows(rows, key)
    /\ IF key = "Enter" /\ SelectedRows(rows) # {}
       THEN /\ Len(jobs) < MaxJobs
            /\ StartReopen(rows[CHOOSE i \in SelectedRows(rows) :
                                  \A j \in SelectedRows(rows) : i <= j].tabData, fail)
            /\ panelState' = "closed"
       ELSE /\ fail = "none"
            /\ UNCHANGED <<browserVars, panelState>>
    /\ UNCHANGED <<placeholder, query, allTabsCache, inputListeners, microtasks, prefVars,
                   hostVars>>
    /\ UNCHANGED startupVars

\* _handleRemoveTabClick (4501-4510): a click on the close button of row i
RemoveTabClick(i) ==
    /\ PopupIdle
    /\ i \in 1..Len(rows)
    /\ rows[i].tabData.isClosed     \* only rows of closed tabs have a close button (4482)
    /\ closedStore' = RemoveClosedTab(World(NewJob(rows[i].tabData)), rows[i].tabData,
                                      storeAvailable).store
    /\ rows' = RemoveAt(rows, i)
    /\ allTabsCache' = CacheAfterRemoveClick(allTabsCache, rows[i].tabData)
    /\ UNCHANGED <<placeholder, query, inputListeners, panelState, microtasks,
                   newTabs, activeWorkspace, selectedTab, jobs, prefVars, hostVars>>
    /\ UNCHANGED startupVars

\* the promise of changeWorkspaceWithID settles and reopenTab j continues (4196-4212);
\* the switch is the browser's own asynchronous work, settled by a task of the event loop
WorkspaceSwitchSettles(j, fail) ==
    /\ microtasks = <<>>
    /\ j \in 1..Len(jobs)
    /\ jobs[j].pc = "await"
    /\ LET w == StepMove(World(jobs[j]), fail)
       IN  /\ jobs' = [jobs EXCEPT ![j] = w.job]
           /\ newTabs' = w.tabs
           /\ activeWorkspace' = w.active
           /\ selectedTab' = w.selected
           /\ closedStore' = w.store
    /\ UNCHANGED <<listVars, inputListeners, panelState, microtasks, prefVars, hostVars>>
    /\ UNCHANGED startupVars

\* event.key: the three keys the handler tests for, and one that stands for any other
Keys == {"ArrowDown", "ArrowUp", "Enter", "Shift"}

\* the call that throws, if any, in the part of reopenTab run by the click
SyncFailures == {"none", "pinTab", "addTabs"}

\* the call that throws, if any, once the workspace switch was awaited
AsyncFailures == {"none", "changeWorkspaceWithID", "moveTabToWorkspace", "pinTab", "addTabs"}

Next ==
    \/ ToggleMenu
    \/ AnchorsAppear
    \/ ResumeAfterClosedTabs
    \/ ResumeAfterOpenTabs
    \/ ResumeToggleMenu
    \/ \E q \in Queries : SearchInput(q)
    \/ \E i \in 1..Len(rows), fail \in SyncFailures : ItemClick(i, fail)
    \/ \E key \in Keys, fail \in SyncFailures : SearchKeydown(key, fail)
    \/ \E i \in 1..Len(rows) : RemoveTabClick(i)
    \/ \E j \in 1..Len(jobs), fail \in AsyncFailures : WorkspaceSwitchSettles(j, fail)

Spec == Init /\ [][Next]_vars

\* The event loop: the microtask queue is drained before the next task, so a suspended
\* continuation always runs; the promise of changeWorkspaceWithID settles in a task of
\* its own, which runs at one of the moments the microtask queue is empty; callers of
\* toggleMenu do not keep the queue occupied forever.
FairSpec ==
    /\ Spec
    /\ WF_vars(ResumeAfterClosedTabs)
    /\ WF_vars(ResumeAfterOpenTabs)
    /\ WF_vars(ResumeToggleMenu)
    /\ []<>(microtasks = <<>>)
    /\ \A n \in 1..MaxJobs : SF_vars(\E fail \in AsyncFailures : WorkspaceSwitchSettles(n, fail))

(***************************************************************************)
(* The start of the script (4654-4672) and setupCommandPaletteIntegration  *)
(* (4630-4652).  A setTimeout callback runs once, at or after the time it  *)
(* is due; at most one is pending at a time.  The window's tabs and the    *)
(* popup play no part before init() has run.                               *)
(***************************************************************************)
windowVars == <<closedStore, storeAvailable, faults, toggleRefused, panels,
                showOpenTabs, newTabs, activeWorkspace,
                selectedTab, panelState, rows, placeholder, query, inputListeners,
                allTabsCache, microtasks, jobs>>

StartupInit ==
    /\ WindowInit
    /\ closedStore = <<1, 2>> /\ storeAvailable /\ ~showOpenTabs /\ faults = {}
    /\ anchor = "noButton"
    /\ ucApi \in BOOLEAN
    /\ palette \in BOOLEAN
    /\ boot = "load"
    /\ now = 0
    /\ due = -1
    /\ retryCount = 0
    /\ attempts = 0
    /\ registered = 0
    /\ fallbackChecks = 0

\* a setupCommandPaletteIntegration that retries without the `retryCount < 10` test
SetupCommandPaletteIntegrationNoLimit(count) ==
    /\ attempts' = attempts + 1
    /\ retryCount' = count
    /\ IF palette
       THEN registered' = registered + 1 /\ due' = -1
       ELSE registered' = registered /\ due' = now + 1

\* setupCommandPaletteIntegration(retryCount) (4630-4652)
SetupCommandPaletteIntegration(count) ==
    /\ attempts' = attempts + 1
    /\ retryCount' = count
    /\ IF palette
       THEN registered' = registered + 1 /\ due' = -1
       ELSE /\ registered' = registered
            /\ due' = IF count < MaxRetries THEN now + 1 ELSE -1

\* the script runs: UC_API is there, or the fallback timer is set (4655-4672)
RunScript ==
    /\ boot = "load"
    /\ IF ucApi
       THEN boot' = "startupWait" /\ due' = due
       ELSE boot' = "fallbackWait" /\ due' = now + 1
    /\ UNCHANGED <<ucApi, palette, now, retryCount, attempts, registered, fallbackChecks,
                   anchor, windowVars>>

\* the callback of the fallback timer (4662-4671)
FallbackTimer ==
    /\ boot = "fallbackWait"
    /\ due # -1 /\ now >= due
    /\ due' = -1
    /\ fallbackChecks' = fallbackChecks + 1
    /\ boot' = IF ucApi THEN "startupWait" ELSE "noApi"
    /\ UNCHANGED <<ucApi, palette, now, retryCount, attempts, registered, anchor, windowVars>>

\* UC_API.Runtime.startupFinished() resolves: init(), whose createWidget call may
\* throw (4295-4307), then setupCommandPaletteIntegration() (4656-4659, 4664-4667)
StartupFinished(found) ==
    /\ boot = "startupWait"
    /\ boot' = "started"
    /\ anchor' = found
    /\ SetupCommandPaletteIntegration(0)
    /\ UNCHANGED <<ucApi, palette, now, fallbackChecks, windowVars>>

\* the callback of the retry timer: setupCommandPaletteIntegration(retryCount + 1) (4647)
RetryTimer ==
    /\ boot = "started"
    /\ due # -1 /\ now >= due
    /\ SetupCommandPaletteIntegration(retryCount + 1)
    /\ UNCHANGED <<ucApi, palette, boot, now, fallbackChecks, anchor, windowVars>>

\* another script defines UC_API
ApiAppears ==
    /\ ~ucApi
    /\ ucApi' = TRUE
    /\ UNCHANGED <<palette, boot, now, due, retryCount, attempts, registered, fallbackChecks,
                   anchor, windowVars>>

\* another script defines window.ZenCommandPalette
PaletteAppears ==
    /\ ~palette
    /\ palette' = TRUE
    /\ UNCHANGED <<ucApi, boot, now, due, retryCount, attempts, registered, fallbackChecks,
                   anchor, windowVars>>

\* 1000 ms pass; a callback that is due runs before more time passes
Tick ==
    /\ now < MaxTime
    /\ due = -1 \/ now < due
    /\ now' = now + 1
    /\ UNCHANGED <<ucApi, palette, boot, due, retryCount, attempts, registered, fallbackChecks,
                   anchor, windowVars>>

StartupNext ==
    \/ RunScript
    \/ FallbackTimer
    \/ \E found \in {"noButton", "noPopupSet", "ready"} : StartupFinished(found)
    \/ RetryTimer
    \/ ApiAppears
    \/ PaletteAppears
    \/ Tick

StartupSpec == StartupInit /\ [][StartupNext]_vars

(***************************************************************************)
(* Claims about TabManager.reopenTab.                                      *)
(***************************************************************************)
JobSet == Range(jobs)

SessionRecord(j) == ClosedPool[j.tabData.sessionData]

\* job j is a restore of a closed entry that has a url
ClosedRestore(j) ==
    j.tabData.isClosed /\ j.tabData.sessionData # 0 /\ SessionRecord(j).url # <<>>

Count(s, x) == Cardinality({i \in 1..Len(s) : s[i] = x})

IsPrefix(s, t) == Len(s) <= Len(t) /\ SubSeq(t, 1, Len(s)) = s

\* C1: a restore of a pinned closed entry whose workspace is not the active one
\* shows every side effect once it has returned, whichever secondary step threw:
\* tab created, workspace switched, tab moved, tab pinned, tab activated again.
C1_AllSideEffectsDespiteThrow ==
    \A j \in JobSet :
        (/\ ClosedRestore(j)
         /\ j.pc = "done"
         /\ SessionRecord(j).pinned
         /\ SessionRecord(j).zenWorkspace # ""
         /\ SessionRecord(j).zenWorkspace # j.activeWorkspaceId)
        => /\ Count(j.calls, "addTab") = 1
           /\ Count(j.calls, "changeWorkspaceWithID") = 1
           /\ Count(j.calls, "moveTabToWorkspace") = 1
           /\ Count(j.calls, "pinTab") = 1
           /\ Count(j.calls, "selectedTab") = 2
           /\ j.calls[Len(j.calls)] = "selectedTab"

\* C2: once a restore has created its tab, in every later state the tab is still
\* open, it was made active and the forget call was issued right after, and the
\* restore is suspended or has returned normally (no exception reached the caller).
C2_NoRollback ==
    \A j \in JobSet :
        (ClosedRestore(j) /\ j.tab # 0)
        => /\ j.tab \in 1..Len(newTabs)
           /\ newTabs[j.tab].open
           /\ IsPrefix(<<"addTab", "selectedTab", "forgetClosedTab">>, j.calls)
           /\ j.pc \in {"await", "done"}

\* a restore whose secondary step threw after the tab was created
C2_Witness ==
    \E j \in JobSet : ClosedRestore(j) /\ j.tab # 0 /\ j.error /\ j.pc = "done"

\* the calls of an undisturbed restore of a closed entry, in order
ExpectedCalls(j) ==
    LET rec == SessionRecord(j)
    IN  <<"addTab", "selectedTab", "forgetClosedTab">>
        \o (IF rec.zenWorkspace # "" /\ rec.zenWorkspace # j.activeWorkspaceId
            THEN <<"changeWorkspaceWithID", "moveTabToWorkspace">> ELSE <<>>)
        \o (IF rec.pinned THEN <<"pinTab">> ELSE <<>>)
        \o (IF rec.closedInTabGroupId \in FolderIds THEN <<"addTabs">> ELSE <<>>)
        \o <<"selectedTab">>

\* C3: a restore of a closed entry with a url issues its calls in the order create,
\* activate, forget, switch workspace and move, pin, add to folder, activate; when
\* no step failed the returned restore has issued exactly these calls.
C3_CallOrder ==
    \A j \in JobSet :
        ClosedRestore(j)
        => /\ IsPrefix(j.calls, ExpectedCalls(j))
           /\ (j.pc = "done" /\ ~j.error) => j.calls = ExpectedCalls(j)

\* an undisturbed restore that switched workspace, pinned and re-added to a folder
C3_Witness ==
    \E j \in JobSet :
        /\ ClosedRestore(j) /\ j.pc = "done" /\ ~j.error
        /\ Len(j.calls) = 8

\* C4: reopenTab on a closed entry whose session record has no url issues no call
\* at all and changes neither the browser, the closed-tab store nor the catalog.
C4_NoUrlNoEffect ==
    [][(/\ Len(jobs') = Len(jobs) + 1
        /\ jobs'[Len(jobs')].tabData.isClosed
        /\ SessionRecord(jobs'[Len(jobs')]).url = <<>>)
       => /\ jobs'[Len(jobs')].calls = <<>>
          /\ jobs'[Len(jobs')].tab = 0
          /\ jobs'[Len(jobs')].pc = "done"
          /\ UNCHANGED <<newTabs, closedStore, allTabsCache, activeWorkspace, selectedTab>>]_vars

\* a restore of the malformed session record has returned
C4_Witness ==
    \E j \in JobSet :
        j.tabData.isClosed /\ SessionRecord(j).url = <<>> /\ j.pc = "done"

(***************************************************************************)
(* Claims about the popup.                                                 *)
(***************************************************************************)
\* C5: opens are never stacked: at most one toggleMenu call is suspended in a
\* build of the panel at a time, and the search input carries at most one set of
\* input/keydown listeners.
C5_NoStackedOpens ==
    /\ Cardinality({i \in 1..Len(microtasks) :
                      microtasks[i].stage \in {"closedTabs", "openTabs"}}) <= 1
    /\ inputListeners <= 1

\* C6: whenever the popup is open with at least one row, exactly one row carries
\* the selected marker.
C6_ExactlyOneSelected ==
    (PopupIdle /\ Len(rows) >= 1) => Cardinality(SelectedRows(rows)) = 1

OccursIn(q, s) ==
    \E off \in 0..(Len(s) - Len(q)) :
        \A k \in 1..Len(q) : LowerChar(s[off + k]) = LowerChar(q[k])

FieldMatch(tab, q) ==
    OccursIn(q, tab.title) \/ OccursIn(q, tab.url)
        \/ OccursIn(q, tab.workspace) \/ OccursIn(q, tab.folder)

RowEntries == {rows[i].tabData : i \in 1..Len(rows)}

\* C8: for every query the filter returns exactly the catalog entries that have
\* the query, letter case ignored, in their title, url, workspace or folder path;
\* the rows of the open popup are those entries for the text of the search input.
C8_FilterSoundComplete ==
    /\ \A q \in Queries : \A tab \in Range(allTabsCache) :
          tab \in Range(FilterTabs(allTabsCache, q)) <=> FieldMatch(tab, q)
    /\ PopupIdle => RowEntries = {tab \in Range(allTabsCache) : FieldMatch(tab, query)}

\* the popup shows, for a typed query, an entry that matches by its folder path only
C8_Witness ==
    /\ PopupIdle /\ query # <<>>
    /\ \E tab \in RowEntries :
          /\ OccursIn(query, tab.folder)
          /\ ~OccursIn(query, tab.title) /\ ~OccursIn(query, tab.url)
          /\ ~OccursIn(query, tab.workspace)
    /\ \E tab \in Range(allTabsCache) : tab \notin RowEntries

ClosedThenOpen(s) == \A i, k \in 1..Len(s) : (i < k /\ s[k].isClosed) => s[i].isClosed

\* s is t with some elements left out
RECURSIVE IsSubsequence(_, _)
IsSubsequence(s, t) ==
    IF s = <<>> THEN TRUE
    ELSE IF t = <<>> THEN FALSE
    ELSE IF Head(s) = Head(t) THEN IsSubsequence(Tail(s), Tail(t))
    ELSE IsSubsequence(s, Tail(t))

\* C9: the catalog is the N closed entries followed by the M open entries of its
\* build; the empty query returns the whole catalog, and every query returns
\* entries in catalog order, closed before open, which is the order of the rows.
C9_ClosedThenOpen ==
    /\ FilterTabs(allTabsCache, <<>>) = allTabsCache
    /\ ClosedThenOpen(allTabsCache)
    /\ \A q \in Queries :
          /\ IsSubsequence(FilterTabs(allTabsCache, q), allTabsCache)
          /\ [i \in 1..Len(FilterTabs(allTabsCache, q)) |->
                 RenderGroups(FilterTabs(allTabsCache, q))[i].tabData]
             = FilterTabs(allTabsCache, q)
    /\ (microtasks # <<>> /\ microtasks[Len(microtasks)].stage = "populated")
       => LET c == microtasks[Len(microtasks)]
              n == Len(c.closedTabs)
              m == Len(c.openTabs)
          IN  /\ Len(allTabsCache) = n + m
              /\ SubSeq(allTabsCache, 1, n) = c.closedTabs
              /\ SubSeq(allTabsCache, n + 1, n + m) = c.openTabs
    /\ PopupIdle => ClosedThenOpen([i \in 1..Len(rows) |-> rows[i].tabData])

\* the popup shows a catalog of closed and open entries under the empty query
C9_Witness ==
    /\ PopupIdle /\ showOpenTabs /\ query = <<>>
    /\ \E tab \in Range(allTabsCache) : tab.isClosed
    /\ \E tab \in Range(allTabsCache) : ~tab.isClosed
    /\ [i \in 1..Len(rows) |-> rows[i].tabData] = allTabsCache

\* entries a row could carry: those of the catalog and those a build would fetch now
Candidates ==
    Range(allTabsCache) \cup Range(GetRecentlyClosedTabs(closedStore, storeAvailable))
        \cup Range(GetOpenTabs(newTabs))

\* C10: removing a closed entry that is in the catalog leaves the catalog without
\* that entry, one shorter and otherwise in order; removing it again, removing an
\* entry that is not in the catalog or an open entry leaves the catalog as it is.
C10_RemoveOnce ==
    \A tab \in Candidates :
        LET after == CacheAfterRemoveClick(allTabsCache, tab)
        IN  /\ (tab.isClosed /\ tab \in Range(allTabsCache))
               => /\ Len(after) = Len(allTabsCache) - 1
                  /\ tab \notin Range(after)
                  /\ IsSubsequence(after, allTabsCache)
                  /\ CacheAfterRemoveClick(after, tab) = after
            /\ (~tab.isClosed \/ tab \notin Range(allTabsCache))
               => after = allTabsCache

\* a dismissal has removed a closed entry from the store and from the catalog
C10_Witness ==
    /\ PopupIdle /\ jobs = <<>>
    /\ Len(closedStore) = MaxClosed - 1
    /\ Len(SelectSeq(allTabsCache, LAMBDA tab : tab.isClosed)) = MaxClosed - 1
    /\ \E tab \in Candidates : ~tab.isClosed /\ tab \in Range(allTabsCache)

(***************************************************************************)
(* Claims about the handlers of the popup.                                 *)
(***************************************************************************)
RowData(rs) == [i \in 1..Len(rs) |-> rs[i].tabData]

\* C11: a click on the remove control of a row issues one forget call for the row's
\* sessionIndex, leaves the catalog without the row's entry and the list without the
\* row, keeps the popup open with the same query, starts no restore and creates no
\* tab; the row it acts on is a row of a closed tab.
C11_DismissDoesNotCommit ==
    [][\A i \in 1..Len(rows) :
          RemoveTabClick(i)
          => LET tabData == rows[i].tabData
                 k == tabData.sessionIndex + 1
                 w == RemoveClosedTab(World(NewJob(tabData)), tabData, storeAvailable)
             IN  /\ tabData.isClosed
                 /\ Count(w.job.calls, "forgetClosedTab") = 1
                 /\ closedStore' = IF k \in 1..Len(closedStore)
                                   THEN RemoveAt(closedStore, k) ELSE closedStore
                 /\ tabData \notin Range(allTabsCache')
                 /\ IsSubsequence(allTabsCache', allTabsCache)
                 /\ Len(allTabsCache') >= Len(allTabsCache) - 1
                 /\ rows' = RemoveAt(rows, i)
                 /\ panelState' = "open"
                 /\ UNCHANGED <<jobs, newTabs, selectedTab, query>>]_vars

\* every closed tab was dismissed: the store and the list are empty, the popup is open
C11_Witness ==
    /\ PopupIdle /\ jobs = <<>> /\ newTabs = <<>>
    /\ closedStore = <<>> /\ ~showOpenTabs /\ rows = <<>> /\ allTabsCache = <<>>

\* reopenTab was called once, on tabData, and the popup was hidden
Committed(tabData) ==
    /\ Len(jobs') = Len(jobs) + 1
    /\ SubSeq(jobs', 1, Len(jobs)) = jobs
    /\ jobs'[Len(jobs')].tabData = tabData
    /\ panelState' = "closed"

\* C12: a click on a row calls reopenTab once on that row's entry and hides the popup;
\* Enter with a selected row does the same for the selected row; no other step calls
\* reopenTab, and the entry of every call is one of the rows shown at that moment.
C12_CommitOnceThenClose ==
    [][/\ \A i \in 1..Len(rows), fail \in SyncFailures :
            ItemClick(i, fail) => Committed(rows[i].tabData)
       /\ \A fail \in SyncFailures :
            (SearchKeydown("Enter", fail) /\ SelectedRows(rows) # {})
            => \E i \in 1..Len(rows) :
                  SelectedRows(rows) = {i} /\ Committed(rows[i].tabData)
       /\ Len(jobs') # Len(jobs)
            => /\ panelState = "open"
               /\ \E i \in 1..Len(rows) : Committed(rows[i].tabData)]_vars

\* a restore was started from the second row and the popup is closed
C12_Witness ==
    /\ panelState = "closed" /\ microtasks = <<>>
    /\ Len(jobs) = 1 /\ Len(rows) >= 2
    /\ jobs[1].tabData = rows[2].tabData

\* what a build of the catalog fetches in this state
FreshCatalog ==
    GetRecentlyClosedTabs(closedStore, storeAvailable)
        \o (IF showOpenTabs THEN GetOpenTabs(newTabs) ELSE <<>>)

\* C13: toggleMenu on the open popup hides it and fetches and rebuilds nothing;
\* on a popup that is not open it empties the list and the query and (unless the
\* button or the popup set is missing) starts a build
\* from the closed-tab store of that moment; when the popup is shown the catalog is
\* what the sources hold at that moment, the query is empty, the first row, if any,
\* is the selected one, and with no other build pending the rows are the catalog.
C13_ToggleFreshCatalog ==
    [][/\ (ToggleMenu /\ panelState = "open")
            => /\ panelState' = "closed"
               /\ UNCHANGED <<allTabsCache, rows, query, microtasks>>
       /\ (ToggleMenu /\ panelState # "open" /\ ~toggleRefused')
            => /\ Len(microtasks') = Len(microtasks) + 1
               /\ microtasks'[Len(microtasks')].closedTabs
                    = GetRecentlyClosedTabs(closedStore, storeAvailable)
               /\ query' = <<>> /\ rows' = <<>>
       /\ ResumeToggleMenu
            => /\ panelState' = "open"
               /\ query' = <<>>
               /\ UNCHANGED <<closedStore, newTabs, storeAvailable, showOpenTabs>>
               /\ allTabsCache' = FreshCatalog
               /\ rows' # <<>> => SelectedRows(rows') = {1}
               /\ microtasks' = <<>> => RowData(rows') = allTabsCache']_vars

\* the popup was opened again after a restore and after the store had shrunk
C13_Witness ==
    /\ PopupIdle /\ query = <<>>
    /\ newTabs # <<>> /\ Len(closedStore) = MaxClosed - 1
    /\ rows # <<>> /\ RowData(rows) = FreshCatalog

\* C14: after an input event with text q the rows are the entries of the catalog that
\* match q, closed ones first, and the first row alone is selected; when none matches
\* the list holds the disabled label and no row.  With no row in the list no key and
\* no click starts a restore or selects anything.
C14_SearchInputResets ==
    [][/\ \A q \in Queries :
            SearchInput(q)
            => LET filteredTabs == FilterTabs(allTabsCache, q)
                   shown == SelectSeq(filteredTabs, LAMBDA t : t.isClosed)
                              \o SelectSeq(filteredTabs, LAMBDA t : ~t.isClosed)
               IN  /\ query' = q
                   /\ RowData(rows') = shown
                   /\ IF shown = <<>>
                      THEN placeholder' /\ rows' = <<>>
                      ELSE ~placeholder' /\ SelectedRows(rows') = {1}
       /\ (PopupIdle /\ rows = <<>> /\ panelState' = "open")
            => /\ Len(jobs') = Len(jobs)
               /\ SelectedRows(rows') \subseteq {1}]_vars

\* a typed query matches nothing: the list shows the disabled label only
C14_Witness ==
    /\ PopupIdle /\ query # <<>> /\ allTabsCache # <<>>
    /\ placeholder /\ rows = <<>>

NewestFirst(s) ==
    \A i, k \in 1..Len(s) :
        (i < k /\ s[i].isClosed /\ s[k].isClosed) => s[i].closedAt >= s[k].closedAt

\* C15: the closed entries are in non-increasing closedAt order in the list a fetch
\* returns, in the lists held by suspended builds, in the catalog, in the result of
\* every filter and in the rows, whatever the order of the records in the store.
C15_NewestFirst ==
    /\ NewestFirst(GetRecentlyClosedTabs(closedStore, storeAvailable))
    /\ \A i \in 1..Len(microtasks) : NewestFirst(microtasks[i].closedTabs)
    /\ NewestFirst(allTabsCache)
    /\ \A q \in Queries : NewestFirst(FilterTabs(allTabsCache, q))
    /\ NewestFirst(RowData(rows))

\* the store holds the older record first and the popup shows the newer row first
C15_Witness ==
    /\ PopupIdle /\ Len(rows) >= 2
    /\ rows[1].tabData.isClosed /\ rows[2].tabData.isClosed
    /\ rows[1].tabData.sessionIndex > rows[2].tabData.sessionIndex
    /\ rows[1].tabData.closedAt > rows[2].tabData.closedAt

(***************************************************************************)
(* Claims about restores and the popup.                                    *)
(***************************************************************************)
\* the restore w continued past its await with a workspace switch that succeeds
RunToEnd(w) == IF w.job.pc = "await" THEN StepMove(w, "none") ELSE w

\* closed entries with a url that a row or the catalog holds in this state
RestorableEntries ==
    {t \in Range(allTabsCache) \cup RowEntries :
        t.isClosed /\ ClosedPool[t.sessionData].url # <<>>}

\* C16: reopenTab on a closed entry with a url, whether the store is available or
\* not and whether the entry's sessionIndex still names a record or not, returns
\* without an error and leaves the created tab open, in the record's workspace,
\* pinned if the record was, in the record's folder if it exists, and selected.
C16_ForgetBestEffort ==
    \A tabData \in RestorableEntries : \A available \in BOOLEAN :
        LET w == RunToEnd(ReopenTab(World(NewJob(tabData)), available, "none"))
            rec == ClosedPool[tabData.sessionData]
            t == w.job.tab
        IN  /\ w.job.pc = "done" /\ ~w.job.error
            /\ t = Len(newTabs) + 1 /\ Len(w.tabs) = t
            /\ w.tabs[t].open /\ w.tabs[t].url = rec.url
            /\ w.selected = t
            /\ w.job.calls[Len(w.job.calls)] = "selectedTab"
            /\ w.tabs[t].pinned = rec.pinned
            /\ w.tabs[t].workspaceId
                 = (IF rec.zenWorkspace # "" THEN rec.zenWorkspace ELSE activeWorkspace)
            /\ w.tabs[t].group
                 = (IF rec.closedInTabGroupId \in FolderIds THEN rec.closedInTabGroupId ELSE "")
            /\ Count(w.job.calls, "forgetClosedTab") = (IF available THEN 1 ELSE 0)
            /\ IsSubsequence(w.store, closedStore) /\ Len(w.store) >= Len(closedStore) - 1
            /\ (~available \/ tabData.sessionIndex + 1 \notin 1..Len(closedStore))
               => w.store = closedStore

\* a restore returned without an error and its own record is still in the store:
\* its forget call was made with a stale sessionIndex
C16_Witness ==
    \E j \in JobSet :
        /\ ClosedRestore(j) /\ j.pc = "done" /\ ~j.error
        /\ j.tabData.sessionData \in Range(closedStore)
        /\ Count(j.calls, "forgetClosedTab") = 1
        /\ j.calls[Len(j.calls)] = "selectedTab"

\* C17: at most one reopenTab execution is suspended at its await at a time.
C17_NoConcurrentRestores ==
    Cardinality({n \in 1..Len(jobs) : jobs[n].pc = "await"}) <= 1

\* the restore has returned after its last statement, gBrowser.selectedTab = newTab
FinalStepReached(j) ==
    /\ j.pc = "done"
    /\ Count(j.calls, "selectedTab") = 2
    /\ j.calls[Len(j.calls)] = "selectedTab"

\* C18: a restore that is suspended at its await eventually returns after its last
\* step, whatever is done to the popup in the meantime.
C18_RestoreReachesFinalStep ==
    \A n \in 1..MaxJobs :
        (Len(jobs) >= n /\ jobs[n].pc = "await")
        ~> (Len(jobs) >= n /\ FinalStepReached(jobs[n]))

\* C19: the step that calls reopenTab on a closed entry whose session record has no
\* url leaves the popup as it was: same state, catalog, rows, selection and query.
C19_MalformedCommitKeepsPopup ==
    [][(/\ Len(jobs') = Len(jobs) + 1
        /\ jobs'[Len(jobs')].tabData.isClosed
        /\ SessionRecord(jobs'[Len(jobs')]).url = <<>>)
       => UNCHANGED <<panelState, allTabsCache, rows, query>>]_vars

\* C20: reopenTab on an entry of an open tab issues switchTabIfNeeded and nothing
\* else and returns: the tab of the entry is the selected one, its workspace, if it
\* has one, the active one; no tab is created, the store and the catalog are as before.
C20_OpenEntrySwitchOnly ==
    [][(/\ Len(jobs') = Len(jobs) + 1
        /\ ~jobs'[Len(jobs')].tabData.isClosed)
       => LET j == jobs'[Len(jobs')]
              tab == CHOOSE t \in Range(TabElements(newTabs)) : t.id = j.tabData.tabElement
          IN  /\ j.calls = <<"switchTabIfNeeded">>
              /\ j.pc = "done" /\ ~j.error /\ j.tab = 0
              /\ selectedTab' = j.tabData.tabElement
              /\ activeWorkspace' = (IF tab.workspaceId # "" THEN tab.workspaceId
                                     ELSE activeWorkspace)
              /\ UNCHANGED <<newTabs, closedStore, allTabsCache>>]_vars

\* a restore of an open entry returned and made a tab other than the first selected
C20_Witness ==
    \E j \in JobSet :
        /\ ~j.tabData.isClosed /\ j.pc = "done"
        /\ j.tabData.tabElement # InitialTabs[1].id
        /\ selectedTab = j.tabData.tabElement

(***************************************************************************)
(* Claims about the steps of a restore and about the building of the       *)
(* catalog.                                                                *)
(***************************************************************************)
\* the record of j names a workspace other than the one active when j started
NeedsSwitch(j) ==
    SessionRecord(j).zenWorkspace # "" /\ SessionRecord(j).zenWorkspace # j.activeWorkspaceId

\* the calls and effects of the workspace step of restore j after a step that took
\* the active workspace from `before` to `after` and left the tabs `tabs`
WorkspaceStepOk(j, before, after, tabs) ==
    /\ Count(j.calls, "changeWorkspaceWithID") = (IF NeedsSwitch(j) THEN 1 ELSE 0)
    /\ Count(j.calls, "moveTabToWorkspace") <= Count(j.calls, "changeWorkspaceWithID")
    /\ ~NeedsSwitch(j)
         => after = before /\ tabs[j.tab].workspaceId = before
    /\ (NeedsSwitch(j) /\ j.pc = "await")
         => after = before /\ Count(j.calls, "moveTabToWorkspace") = 0
    /\ (NeedsSwitch(j) /\ j.pc = "done" /\ ~j.error)
         => /\ Count(j.calls, "moveTabToWorkspace") = 1
            /\ after = SessionRecord(j).zenWorkspace
            /\ tabs[j.tab].workspaceId = SessionRecord(j).zenWorkspace

\* C21: a restore of a closed entry calls changeWorkspaceWithID, and after it
\* moveTabToWorkspace, exactly when the record names a workspace that differs from
\* the workspace active when the restore started; otherwise it makes neither call
\* and the step that runs it leaves the active workspace as it was.
C21_WorkspaceSwitchIff ==
    [][\A n \in 1..Len(jobs') :
          (/\ ClosedRestore(jobs'[n])
           /\ (n > Len(jobs) \/ jobs'[n] # jobs[n]))
          => /\ n > Len(jobs) => jobs'[n].activeWorkspaceId = activeWorkspace
             /\ WorkspaceStepOk(jobs'[n], activeWorkspace, activeWorkspace', newTabs')]_vars

\* a restore of a record whose workspace was the active one returned without a switch
C21_Witness ==
    \E j \in JobSet :
        /\ ClosedRestore(j) /\ j.pc = "done" /\ ~j.error
        /\ SessionRecord(j).zenWorkspace # "" /\ ~NeedsSwitch(j)
        /\ Count(j.calls, "changeWorkspaceWithID") = 0

\* C22: the tab a restore created is pinned only if the session record is pinned,
\* with at most one pinTab call, and it is pinned once the restore of a pinned
\* record has returned without a failed step.
C22_PinnedIff ==
    \A j \in JobSet :
        ClosedRestore(j)
        => /\ Count(j.calls, "pinTab") <= (IF SessionRecord(j).pinned THEN 1 ELSE 0)
           /\ newTabs[j.tab].pinned => SessionRecord(j).pinned
           /\ (SessionRecord(j).pinned /\ j.pc = "done" /\ ~j.error)
              => newTabs[j.tab].pinned /\ Count(j.calls, "pinTab") = 1

\* a pinned and an unpinned record were both restored
C22_Witness ==
    /\ \E j \in JobSet :
          ClosedRestore(j) /\ j.pc = "done" /\ ~j.error /\ newTabs[j.tab].pinned
    /\ \E j \in JobSet :
          ClosedRestore(j) /\ j.pc = "done" /\ ~j.error /\ ~newTabs[j.tab].pinned

\* C23: when the folder of the session record exists the returned restore has added
\* the tab to it; when the record names a folder that does not exist no addTabs
\* call is made, the tab is in no folder, and the restore ends with its final
\* selectedTab unless a step before the folder step threw.
C23_FolderIfExists ==
    \A j \in JobSet :
        ClosedRestore(j)
        => LET groupId == SessionRecord(j).closedInTabGroupId
           IN  /\ (groupId \in FolderIds /\ j.pc = "done" /\ ~j.error)
                  => Count(j.calls, "addTabs") = 1 /\ newTabs[j.tab].group = groupId
               /\ newTabs[j.tab].group \in {"", groupId}
               /\ groupId \notin FolderIds
                  => /\ Count(j.calls, "addTabs") = 0
                     /\ newTabs[j.tab].group = ""
                     /\ j.pc = "done"
                        => \/ FinalStepReached(j)
                           \/ j.calls[Len(j.calls)] \in
                                {"changeWorkspaceWithID", "moveTabToWorkspace", "pinTab"}

\* a restore of a record whose folder does not exist has reached its final step
C23_Witness ==
    \E j \in JobSet :
        /\ ClosedRestore(j)
        /\ SessionRecord(j).closedInTabGroupId # ""
        /\ SessionRecord(j).closedInTabGroupId \notin FolderIds
        /\ FinalStepReached(j) /\ ~j.error

\* entries that fit neither branch of reopenTab: a closed entry without session data,
\* an open entry without a tab element
FallbackEntries ==
    {[t EXCEPT !.sessionData = 0, !.tabElement = 0] : t \in Candidates}

\* C24: reopenTab on an entry that fits neither branch and has a url issues addTab
\* and selectedTab only: one unpinned tab with that url outside any folder, selected;
\* without a url it issues no call and creates nothing.  The store and the active
\* workspace are as before.
C24_Fallback ==
    \A e \in FallbackEntries : \A available \in BOOLEAN : \A fail \in SyncFailures :
        LET w == ReopenTab(World(NewJob(e)), available, fail)
            t == Len(newTabs) + 1
        IN  /\ w.job.pc = "done" /\ ~w.job.error
            /\ w.store = closedStore /\ w.active = activeWorkspace
            /\ IF e.url # <<>>
               THEN /\ w.job.calls = <<"addTab", "selectedTab">>
                    /\ Len(w.tabs) = t /\ SubSeq(w.tabs, 1, t - 1) = newTabs
                    /\ w.tabs[t].url = e.url /\ w.tabs[t].open
                    /\ ~w.tabs[t].pinned /\ w.tabs[t].group = ""
                    /\ w.selected = t
               ELSE /\ w.job.calls = <<>>
                    /\ w.tabs = newTabs /\ w.selected = selectedTab

\* the popup lists an entry with a url and one without; stripped of session data the
\* first makes reopenTab create a tab and the second does not
C24_Witness ==
    /\ PopupIdle
    /\ \E e \in FallbackEntries :
          e.url # <<>> /\ ReopenTab(World(NewJob(e)), storeAvailable, "none").job.tab # 0
    /\ \E e \in FallbackEntries :
          e.url = <<>> /\ ReopenTab(World(NewJob(e)), storeAvailable, "none").job.tab = 0

\* C25: every build holds the closed tabs of the store as fetched; with the pref off
\* (its default) no build enumerates the open tabs and the catalog and the rows hold
\* closed entries only; with the pref on a finished build holds the open tabs.
C25_OpenTabsOnlyIfFlag ==
    /\ GetPref("unset") = FALSE
    /\ \A i \in 1..Len(microtasks) :
          /\ microtasks[i].closedTabs = GetRecentlyClosedTabs(closedStore, storeAvailable)
          /\ ~showOpenTabs
             => microtasks[i].stage # "openTabs" /\ microtasks[i].openTabs = <<>>
          /\ (showOpenTabs /\ microtasks[i].stage = "populated")
             => microtasks[i].openTabs = GetOpenTabs(newTabs)
    /\ ~showOpenTabs
       => /\ \A tab \in Range(allTabsCache) : tab.isClosed
          /\ \A tab \in RowEntries : tab.isClosed

\* with the pref off the popup shows closed entries although tabs are open
C25_Witness ==
    /\ PopupIdle /\ ~showOpenTabs
    /\ allTabsCache # <<>> /\ RowData(rows) = allTabsCache
    /\ "allStoredTabs" \notin faults
    /\ SelectSeq(AllTabs(newTabs), IsLiveTab) # <<>>

(***************************************************************************)
(* Claims about the data sources and the panel.                            *)
(***************************************************************************)
ClosedSourceDown == ~storeAvailable \/ "getClosedTabData" \in faults

OpenSourceDown == "allStoredTabs" \in faults

\* the entries of the records of the store, newest first
StoreEntries ==
    SortByClosedAt([i \in 1..Len(closedStore) |-> ClosedEntry(closedStore[i], i - 1)])

\* the entries of the live tabs of the window
LiveTabEntries ==
    LET all == SelectSeq(AllTabs(newTabs), IsLiveTab)
    IN  [i \in 1..Len(all) |-> OpenEntry(all[i])]

\* C26: every build ends with the popup shown.  When the closed-tab store is missing
\* or throws, the catalog holds no closed entry and, with the pref on, the open
\* entries; when the enumeration of the tabs throws, it holds no open entry and the
\* closed entries of the store; when it is empty the list holds the disabled label
\* and no row.
C26_SourceFailureDegrades ==
    [][ResumeToggleMenu
       => /\ panelState' = "open"
          /\ ClosedSourceDown
             => /\ \A tab \in Range(allTabsCache') : ~tab.isClosed
                /\ (showOpenTabs /\ ~OpenSourceDown) => allTabsCache' = LiveTabEntries
          /\ (showOpenTabs /\ OpenSourceDown)
             => /\ \A tab \in Range(allTabsCache') : tab.isClosed
                /\ ~ClosedSourceDown => allTabsCache' = StoreEntries
          /\ microtasks' = <<>>
             => /\ RowData(rows') = allTabsCache'
                /\ allTabsCache' = <<>> => placeholder' /\ rows' = <<>>]_vars

\* the store holds records but reading it throws: the popup shows the open tabs only
C26_Witness ==
    /\ PopupIdle /\ "getClosedTabData" \in faults /\ closedStore # <<>>
    /\ rows # <<>> /\ \A tab \in RowEntries : ~tab.isClosed

\* C27: while the button or #mainPopupSet is missing, no step creates a panel, starts
\* a build, reads a source or changes the popup, and a toggleMenu call only logs its
\* error; the toggleMenu call made once both exist creates the panel and starts the
\* build.
C27_MissingAnchorNoOp ==
    [][/\ anchor # "ready"
            => /\ UNCHANGED <<panels, panelState, rows, placeholder, query, allTabsCache,
                              inputListeners, microtasks, closedStore, newTabs, jobs>>
               /\ ToggleMenu => toggleRefused' /\ anchor' = anchor
       /\ (ToggleMenu /\ anchor = "ready" /\ panels = 0)
            => /\ panels' = 1 /\ ~toggleRefused'
               /\ Len(microtasks') = Len(microtasks) + 1
               /\ microtasks'[Len(microtasks')].stage = "closedTabs"]_vars

\* a toggleMenu call was refused and the button and #mainPopupSet have appeared since
C27_Witness ==
    toggleRefused /\ anchor = "ready" /\ panels = 0 /\ panelState = "none"

\* C28: an input event leaves the catalog as it is, and the empty text shows every
\* entry of the catalog again.
C28_FilterKeepsCatalog ==
    [][\A q \in Queries :
          SearchInput(q)
          => /\ allTabsCache' = allTabsCache
             /\ q = <<>> => RowData(rows') = allTabsCache]_vars

\* a typed query has narrowed the rows and the catalog still holds more entries
C28_Witness ==
    /\ PopupIdle /\ query # <<>>
    /\ rows # <<>> /\ Len(rows) < Len(allTabsCache)

C30_OnePanel ==
    /\ panels <= 1
    /\ panels = 0 <=> panelState = "none"
    /\ anchor # "ready" => panels = 0

\* the popup was opened again and again and there is still one panel
C30_Witness ==
    /\ PopupIdle /\ panels = 1
    /\ Len(jobs) = MaxJobs

(***************************************************************************)
(* Claims about sessionIndex.                                              *)
(***************************************************************************)
WithoutRecord(store, rid) == SelectSeq(store, LAMBDA r : r # rid)

\* C31: with the store available, the step that dismisses a row and the step that
\* starts the restore of a closed entry with a url take the session record of that
\* entry, which is in the store, out of the store and leave every other record in it.
C31_ForgetRemovesOwnRecord ==
    [][storeAvailable
       => /\ \A i \in 1..Len(rows) :
                RemoveTabClick(i)
                => /\ rows[i].tabData.sessionData \in Range(closedStore)
                   /\ closedStore' = WithoutRecord(closedStore, rows[i].tabData.sessionData)
          /\ (Len(jobs') = Len(jobs) + 1 /\ ClosedRestore(jobs'[Len(jobs')]))
                => /\ jobs'[Len(jobs')].tabData.sessionData \in Range(closedStore)
                   /\ closedStore' = WithoutRecord(closedStore,
                                                   jobs'[Len(jobs')].tabData.sessionData)]_vars

(***************************************************************************)
(* Claims about overlapping restores.                                      *)
(***************************************************************************)
\* C32: the step that ends the last of several restores of closed entries, none of
\* which had a failed call, and before which one of them was suspended at its await,
\* leaves the tab of the restore called last selected and every created tab in the
\* workspace of its own session record.
C32_LastCommitWins ==
    [][(/\ Len(jobs') >= 2
        /\ \E n \in 1..Len(jobs) : jobs[n].pc = "await"
        /\ \A n \in 1..Len(jobs') :
              /\ jobs'[n].pc = "done" /\ ~jobs'[n].error
              /\ ClosedRestore(jobs'[n]))
       => /\ selectedTab' = jobs'[Len(jobs')].tab
          /\ \A n \in 1..Len(jobs') :
                SessionRecord(jobs'[n]).zenWorkspace # ""
                => newTabs'[jobs'[n].tab].workspaceId = SessionRecord(jobs'[n]).zenWorkspace]_vars

(***************************************************************************)
(* Claims about the rendered list.                                         *)
(***************************************************************************)
\* C33: whenever the popup is open between two events, the rows are the entries of
\* the catalog that match the text of the search input, in the order of the catalog,
\* closed ones before open ones; a click on the remove control of a row leaves its
\* entry neither in the catalog nor in the rows.
C33_RowsAreFilteredCatalog ==
    [][/\ PopupIdle'
          => /\ RowData(rows') = FilterTabs(allTabsCache', query')
             /\ ClosedThenOpen(RowData(rows'))
       /\ \A i \in 1..Len(rows) :
             RemoveTabClick(i)
             => /\ rows[i].tabData \notin Range(allTabsCache')
                /\ rows[i].tabData \notin Range(RowData(rows'))
                /\ Len(allTabsCache') = Len(allTabsCache) - 1
                /\ Len(rows') = Len(rows) - 1]_vars

\* a row was dismissed in this session and the rows left are those of a typed query
C33_Witness ==
    /\ PopupIdle /\ query # <<>> /\ jobs = <<>>
    /\ rows # <<>> /\ Len(rows) < Len(allTabsCache)
    /\ Len(closedStore) < MaxClosed
    /\ \E tab \in Range(allTabsCache) : tab.isClosed /\ tab.sessionIndex >= Len(closedStore)

\* C34: whenever the popup is open between two events and the list holds no row, it
\* holds the disabled label.
C34_PlaceholderWhenEmpty ==
    (PopupIdle /\ rows = <<>>) => placeholder

\* C35: a keydown event with Enter while no row is selected, and one with an arrow
\* key while the list holds no row, changes nothing: no reopenTab call, no tab, the
\* same store, the popup still open; the handler finds no row to select.
C35_KeyWithoutRowNoOp ==
    [][/\ \A key \in Keys, fail \in SyncFailures :
             (/\ SearchKeydown(key, fail)
              /\ \/ key = "Enter" /\ SelectedRows(rows) = {}
                 \/ key \in {"ArrowDown", "ArrowUp"} /\ rows = <<>>)
             => UNCHANGED vars
       /\ (PopupIdle /\ rows = <<>>)
             => \A key \in Keys : KeydownRows(rows, key) = <<>>
                                  /\ NextSelected(0, 0, key) = 0]_vars

\* the popup is open with rows of which none is selected, and a restore can start
C35_Witness ==
    /\ PopupIdle /\ inputListeners >= 1
    /\ rows # <<>> /\ SelectedRows(rows) = {}
    /\ Len(jobs) < MaxJobs

\* the closed entries of s carry the positions their records have in the store
IndexedByStore(s) ==
    /\ \A i \in 1..Len(s) :
          s[i].isClosed
          => /\ s[i].sessionIndex + 1 \in 1..Len(closedStore)
             /\ closedStore[s[i].sessionIndex + 1] = s[i].sessionData
    /\ \A i, k \in 1..Len(s) :
          (i # k /\ s[i].isClosed /\ s[k].isClosed) => s[i].sessionIndex # s[k].sessionIndex

\* C36: in the list a fetch returns, in the lists held by the builds in progress and
\* in the catalog at the moment the popup is shown, every closed entry carries the
\* position of its session record in the store, wherever sorting has put the entry,
\* and no two closed entries carry the same position.
C36_SessionIndexIsStorePosition ==
    [][/\ IndexedByStore(GetRecentlyClosedTabs(closedStore, storeAvailable))
       /\ \A n \in 1..Len(microtasks) : IndexedByStore(microtasks[n].closedTabs)
       /\ (ResumeToggleMenu /\ microtasks' = <<>>)
             => /\ IndexedByStore(allTabsCache)
                /\ Len(SelectSeq(allTabsCache, LAMBDA tab : tab.isClosed))
                     = IF ClosedSourceDown THEN 0 ELSE Len(closedStore)]_vars

\* the popup shows a catalog, built from the store as it is, whose first closed entry
\* is not the first record of the store
C36_Witness ==
    /\ PopupIdle /\ Len(closedStore) = MaxClosed
    /\ Len(allTabsCache) >= MaxClosed
    /\ allTabsCache[1].isClosed /\ allTabsCache[1].sessionIndex # 0
    /\ closedStore[allTabsCache[1].sessionIndex + 1] = allTabsCache[1].sessionData

(***************************************************************************)
(* Claims about the folder path.                                           *)
(***************************************************************************)
\* the folders from `group` up to the outermost one, `group` first
RECURSIVE FolderChain(_)
FolderChain(group) ==
    IF group \in FolderIds THEN <<group>> \o FolderChain(FolderParent(group)) ELSE <<>>

\* the labels of the chain, outermost first, with " / " between them
Breadcrumb(group) ==
    LET chain == FolderChain(group)
        n == Len(chain)
    IN  Join([i \in 1..n |-> FolderLabel(chain[n + 1 - i])], <<" ", "/", " ">>)

\* C38: the folder path of a tab in a folder is the labels of the folders from the
\* outermost one down to the tab's own, joined by " / "; the walk up the parents ends
\* at the first group that is no folder; a tab in no folder has no folder path.  The
\* open entries a fetch returns carry that path.
C38_FolderBreadcrumb ==
    /\ \A group \in FolderIds \cup {"", "F9"} :
          /\ Len(FolderPath(group)) = Len(FolderChain(group))
          /\ group \in FolderIds
             => /\ GetFolderBreadcrumbs(group) = Breadcrumb(group)
                /\ FolderPath(group)[Len(FolderPath(group))] = FolderLabel(group)
          /\ group \notin FolderIds => FolderPath(group) = <<>>
    /\ \A tab \in Range(GetOpenTabs(newTabs)) :
          ~tab.isClosed
          => \E t \in Range(TabElements(newTabs)) :
                /\ t.id = tab.tabElement
                /\ tab.folder = IF t.group \in FolderIds THEN Breadcrumb(t.group) ELSE <<>>

\* the popup lists a tab of a nested folder, a restored tab of its parent folder and
\* a tab in no folder
C38_Witness ==
    /\ PopupIdle
    /\ \E tab \in RowEntries : ~tab.isClosed /\ tab.folder = <<"b", " ", "/", " ", "c">>
    /\ \E tab \in RowEntries : ~tab.isClosed /\ tab.folder = <<"b">>
    /\ \E tab \in RowEntries : ~tab.isClosed /\ tab.folder = <<>>

(***************************************************************************)
(* Claims about the start of the script.                                   *)
(***************************************************************************)
\* the polling has ended: the command is registered or the tenth retry found no palette
PollingOver == registered >= 1 \/ attempts >= MaxRetries + 1

\* C37: setupCommandPaletteIntegration is called at most 11 times, never sooner than
\* 1000 ms after the call before, and addCommands at most once; once the command is
\* registered or the call after the tenth retry has found no palette, no timer is
\* pending and no further call is ever made.  The fallback callback runs at most
\* once, and when it finds no UC_API nothing is pending and nothing is ever called.
C37_StartupPollingTerminates ==
    [][/\ attempts' <= MaxRetries + 1
       /\ attempts' <= now' + 1
       /\ registered' <= 1
       /\ boot' = "started" => attempts' = retryCount' + 1
       /\ PollingOver' => due' = -1
       /\ PollingOver => attempts' = attempts /\ registered' = registered
       /\ fallbackChecks' <= 1
       /\ boot' = "noApi" => due' = -1 /\ attempts' = 0
       /\ boot = "noApi" => boot' = "noApi"]_vars

\* the fallback found UC_API, and the call after the tenth retry found no palette
C37_Witness ==
    /\ boot = "started" /\ fallbackChecks = 1
    /\ attempts = MaxRetries + 1 /\ retryCount = MaxRetries
    /\ registered = 0 /\ due = -1

====
